---- MODULE Spec2Model ----
(***************************************************************************)
(* Model of libopenage/unit/attribute.h: the attribute payload classes     *)
(* (AttributeContainer and its 15 Attribute<T> specialisations) and the    *)
(* Attributes store, a std::map from attr_type to a reference-counted      *)
(* pointer to an AttributeContainer.                                       *)
(*                                                                         *)
(* The heap is explicit: an object is an id, a pointer is an id or NULL,   *)
(* and an object lives as long as some std::shared_ptr (an entry of a      *)
(* store, or a pointer held by calling code) refers to it.                 *)
(***************************************************************************)
EXTENDS Integers, FiniteSets, Sequences, TLC

\* ---------------------------------------------------------------- bounds
MaxVal    == 1   \* scalar payloads range over 0..MaxVal, containers hold <= MaxVal items

\* 4 = gamedata::hit_class::UNITS_MELEE, the key of the testing constructor
UNITS_MELEE == 4

\* the empty std::shared_ptr
NULL == 0

\* ------------------------------------------------------------ attr_type
AttrTypes ==
    << "owner", "damaged", "hitpoints", "armor", "attack", "heal", "speed",
       "direction", "projectile", "building", "dropsite", "resource",
       "worker", "multitype", "garrison" >>

AllTypes == {AttrTypes[i] : i \in 1..Len(AttrTypes)}

\* The attributes the calling code constructs: the current hitpoints of a
\* unit (unshared) and its speed (shared).
UsedTypes == {"damaged", "speed"}

\* The tag the calling code may assign to a value it holds.
Retags == {"speed"}

TypeIndex == [t \in AllTypes |-> CHOOSE i \in 1..Len(AttrTypes) : AttrTypes[i] = t]

attack_stance == {"aggresive", "devensive", "stand_ground", "do_nothing"}

\* ----------------------------------------------- external value types
Vals == 0..MaxVal

\* Player &, UnitReference, object_state, coord::phys3, ResourceBundle are
\* opaque values of collaborators; only their identity is copied.
GameResources == {"food", "wood"}

UnitTypes == {"VillagerMale", "Militia"}

UnitTypePtrs == UnitTypes \cup {"nullptr"}

UnitClasses == {"Worker", "Soldier", "Scout"}

\* typeamount_map = std::unordered_map<int, unsigned int>
TypeAmountMaps == UNION {[K -> Vals] : K \in SUBSET {UNITS_MELEE}}

\* coord::phys3_delta
Vec3 == Vals \X Vals \X Vals

SeqsUpTo(S, n) == UNION {[1..k -> S] : k \in 0..n}

PartialMaps(K, V) == UNION {[D -> V] : D \in SUBSET K}

\* ------------------------------------------------- the class hierarchy
\* A slip: the attack attribute derived from the shared base (its stance is
\* meant to move out so that it can become shared).
BaseClass_attack(t) ==
    IF t \in {"owner", "hitpoints", "armor", "attack", "heal", "speed", "dropsite",
              "worker", "multitype"}
    THEN "SharedAttributeContainer" ELSE "UnsharedAttributeContainer"

\* The base class each Attribute<T> specialisation derives from.
BaseClass(t) ==
    CASE t = "owner"      -> "SharedAttributeContainer"
      [] t = "hitpoints"  -> "SharedAttributeContainer"
      [] t = "damaged"    -> "UnsharedAttributeContainer"
      [] t = "armor"      -> "SharedAttributeContainer"
      [] t = "attack"     -> "UnsharedAttributeContainer"
      [] t = "heal"       -> "SharedAttributeContainer"
      [] t = "speed"      -> "SharedAttributeContainer"
      [] t = "direction"  -> "UnsharedAttributeContainer"
      [] t = "projectile" -> "UnsharedAttributeContainer"
      [] t = "building"   -> "UnsharedAttributeContainer"
      [] t = "dropsite"   -> "SharedAttributeContainer"
      [] t = "resource"   -> "UnsharedAttributeContainer"
      [] t = "worker"     -> "SharedAttributeContainer"
      [] t = "multitype"  -> "SharedAttributeContainer"
      [] t = "garrison"   -> "UnsharedAttributeContainer"

\* The data members of each specialisation, with the values they can take.
FieldSpace(t) ==
    CASE t = "owner"      -> [player : Vals]
      [] t = "hitpoints"  -> [hp : Vals, hp_bar_height : Vals]
      [] t = "damaged"    -> [hp : Vals]
      [] t = "armor"      -> [armor : TypeAmountMaps]
      [] t = "attack"     -> [ptype : UnitTypePtrs, range : Vals, init_height : Vals,
                              damage : TypeAmountMaps, stance : attack_stance]
      [] t = "heal"       -> [range : Vals, life : Vals, rate : Vals]
      [] t = "speed"      -> [unit_speed : Vals]
      [] t = "direction"  -> [unit_dir : Vec3]
      [] t = "projectile" -> [projectile_arc : Vals, launcher : Vals, launched : BOOLEAN]
      [] t = "building"   -> [completed : Vals, foundation_terrain : Vals,
                              completion_state : Vals, pp : UnitTypePtrs,
                              gather_point : Vals]
      [] t = "dropsite"   -> [resource_types : SeqsUpTo(GameResources, MaxVal)]
      [] t = "resource"   -> [resource_type : GameResources, amount : Vals]
      [] t = "worker"     -> [capacity : Vals, gather_rate : Vals]
      [] t = "multitype"  -> [types : PartialMaps(UnitClasses, UnitTypes)]
      [] t = "garrison"   -> [content : SeqsUpTo(Vals, MaxVal)]

\* An object: its dynamic class (the specialisation), the member
\* AttributeContainer::type, and the members of the specialisation.
Obj(t, f) == [variant |-> t, type |-> t, f |-> f]

\* The objects the constructors of Attribute<t> can produce.  A member the
\* constructor does not initialise holds an indeterminate value.
Ctor(t) ==
    CASE t = "owner"      -> {Obj(t, [player |-> p]) : p \in Vals}
      [] t = "hitpoints"  -> {Obj(t, [hp |-> i, hp_bar_height |-> u]) : i \in Vals, u \in Vals}
      [] t = "damaged"    -> {Obj(t, [hp |-> i]) : i \in Vals}
      [] t = "armor"      -> {Obj(t, [armor |-> a]) : a \in TypeAmountMaps}
      [] t = "attack"     ->
            {Obj(t, [ptype |-> p, range |-> r, init_height |-> h, damage |-> d,
                     stance |-> "do_nothing"]) :
                p \in UnitTypePtrs, r \in Vals, h \in Vals, d \in TypeAmountMaps}
      [] t = "heal"       -> {Obj(t, [range |-> r, life |-> l, rate |-> ra]) :
                                r \in Vals, l \in Vals, ra \in Vals}
      [] t = "speed"      -> {Obj(t, [unit_speed |-> sp]) : sp \in Vals}
      [] t = "direction"  -> {Obj(t, [unit_dir |-> dir]) : dir \in Vec3}
      [] t = "projectile" -> {Obj(t, [projectile_arc |-> arc, launcher |-> 0,
                                      launched |-> FALSE]) : arc \in Vals}
      [] t = "building"   ->
            {Obj(t, [completed |-> 0, foundation_terrain |-> 0, completion_state |-> u1,
                     pp |-> u2, gather_point |-> u3]) :
                u1 \in Vals, u2 \in UnitTypePtrs, u3 \in Vals}
      [] t = "dropsite"   -> {Obj(t, [resource_types |-> ty]) :
                                ty \in SeqsUpTo(GameResources, MaxVal)}
      [] t = "resource"   -> {Obj(t, [resource_type |-> ty, amount |-> am]) :
                                ty \in GameResources, am \in Vals}
      [] t = "worker"     -> {Obj(t, [capacity |-> u1, gather_rate |-> 0]) : u1 \in Vals}
      [] t = "multitype"  -> {Obj(t, [types |-> << >>])}
      [] t = "garrison"   -> {Obj(t, [content |-> << >>])}

\* Every object of class Attribute<t> (constructed, then its public members written).
Objects(t) == {Obj(t, f) : f \in FieldSpace(t)}

\* SharedAttributeContainer::shared / UnsharedAttributeContainer::shared
shared(v) == BaseClass(v.variant) = "SharedAttributeContainer"


\* ------------------------------------------------------------- the heap
\* heap is a function from the ids of the live objects to the objects.
NewId(h) == CHOOSE n \in 1..(Cardinality(DOMAIN h) + 1) : n \notin DOMAIN h

\* std::make_shared<Attribute<T>>(v): a new object holding v
make_shared(h, v) ==
    LET n == NewId(h)
    IN  [heap |-> [o \in DOMAIN h \cup {n} |-> IF o = n THEN v ELSE h[o]], ptr |-> n]

\* The implicit copy constructor Attribute<T>(const Attribute<T> &): memberwise.
CopyConstruct(v) == [variant |-> v.variant, type |-> v.type, f |-> v.f]

\* A slip a copy() could make: hand out the object itself instead of a copy.
copy_alias(h, p) == [heap |-> h, ptr |-> p]

\* A slip a copy() could make: construct the copy without the payload of the source.
copy_default(h, p) ==
    make_shared(h, [variant |-> h[p].variant, type |-> h[p].type,
                    f |-> CHOOSE f \in FieldSpace(h[p].variant) : f # h[p].f])

\* Attribute<T>::copy(): std::make_shared<Attribute<T>>(*this)
copy(h, p) == make_shared(h, CopyConstruct(h[p]))

\* ------------------------------------------ std::map<attr_type, shared_ptr>
\* A map is a set of entries [key, ptr].
Entry(k, p) == [key |-> k, ptr |-> p]

MapKeys(m) == {e.key : e \in m}

\* count(k): the number of entries under k
MapCount(m, k) == Cardinality({e \in m : e.key = k})

\* A slip: lower_bound(k), the first entry whose key is not less than k.
MapFind_lower(m, k) ==
    LET ge == {e \in m : TypeIndex[e.key] >= TypeIndex[k]}
    IN  IF ge = {} THEN NULL
        ELSE (CHOOSE e \in ge : \A x \in ge : TypeIndex[e.key] <= TypeIndex[x.key]).ptr

\* find(k): the mapped pointer, or NULL for end()
MapFind(m, k) ==
    IF \E e \in m : e.key = k THEN (CHOOSE e \in m : e.key = k).ptr ELSE NULL

\* A std::multimap would keep the old entry beside the new one.
MapPut_multi(m, k, p) == m \cup {Entry(k, p)}

\* std::map::insert keeps the old entry and drops the new one.
MapPut_insert(m, k, p) == IF \E e \in m : e.key = k THEN m ELSE m \cup {Entry(k, p)}

\* m[k] = p: the entry under k is replaced or created
MapPut(m, k, p) == {e \in m : e.key # k} \cup {Entry(k, p)}

\* A slip: clear() instead of erase(k).
MapErase_clear(m, k) == {}

\* A slip: the entry is left in place.
MapErase_none(m, k) == m

\* erase(k): the map without the entries under k
MapErase(m, k) == {e \in m : e.key # k}


\* ------------------------------------------------------------ the state
VARIABLES
    heap,       \* the live AttributeContainer objects, by address
    attrs,      \* attrs[s]: the member Attributes::attrs of store s
    local,      \* the std::shared_ptr variables of the calling code
    unit_type,  \* the active UnitType of the Unit handed to switchType
    last        \* the last call and what it returned

vars == <<heap, attrs, local, unit_type, last>>

\* Two stores: a template's and a unit's.
Sets == {1, 2}

\* One std::shared_ptr variable of the calling code.
Locals == {1}

\* The places a pointer is held at, each with the pointer it holds, in a fixed
\* order: the entries of the stores by store and key, then the variables of
\* the calling code.
Slots(a, l) ==
    UNION {{<<(s - 1) * Len(AttrTypes) + TypeIndex[e.key], e.ptr>> : e \in a[s]} : s \in DOMAIN a}
        \cup {<<Len(AttrTypes) * Cardinality(DOMAIN a) + i, l[i]>> : i \in {j \in DOMAIN l : l[j] # NULL}}

\* A live object is held at one place at least; the first place that holds it.
FirstSlots(sl) == {x \in sl : \A y \in sl : y[2] = x[2] => x[1] <= y[1]}

\* An object whose last shared_ptr is gone is destroyed.  The program cannot
\* observe an address, so a state is kept up to renaming of the addresses:
\* a live object is named by the first place that holds it (fs, the first
\* places with the pointers they hold).
Collect(h, a, l, fs) ==
    [heap  |-> [n \in {x[1] : x \in fs} |-> h[(CHOOSE x \in fs : x[1] = n)[2]]],
     attrs |-> [s \in DOMAIN a |->
                  {[key |-> e.key, ptr |-> (CHOOSE x \in fs : x[2] = e.ptr)[1]] : e \in a[s]}],
     local |-> [i \in DOMAIN l |->
                  IF l[i] = NULL THEN NULL ELSE (CHOOSE x \in fs : x[2] = l[i])[1]]]

\* The state after a call that leaves heap h, stores a and variables l.
Becomes(h, a, l) ==
    \E sl \in {Slots(a, l)} :
        \E fs \in {FirstSlots(sl)} :
            \E c \in {Collect(h, a, l, fs)} :
                /\ heap' = c.heap
                /\ attrs' = c.attrs
                /\ local' = c.local

\* A call: the operation, the store it is called on, its arguments (src, type,
\* sh, un) and the boolean it returned (retb).  had tells, for an add, whether
\* the store held an entry under the key before, and for a write of a member,
\* whether the call before was an add_copies.
Call(op, s, src, t, sh, un, had, retb) ==
    [op |-> op, set |-> s, src |-> src, type |-> t, sh |-> sh, un |-> un,
     had |-> had, retb |-> retb]

\* ------------------------------------------------ Attributes operations
\* Attributes::add: the entry under attr->type is created or replaced
add(m, h, p) == MapPut(m, h[p].type, p)

\* Attributes::has
has(m, t) == MapCount(m, t) > 0

\* Attributes::get: the stored pointer, empty when there is no entry
get(m, t) == MapFind(m, t)

\* Attributes::remove: the map afterwards, and whether an entry was removed
remove(m, t) == [attrs |-> MapErase(m, t), ret |-> MapErase(m, t) # m]

\* Attributes::add_copies(attrs, shared, unshared): the entries of store s are
\* visited in key order (i is the index of the key visited last); each one the
\* flags select is copied and the copy is added to store d.
RECURSIVE add_copies_from(_, _, _, _, _, _, _)
add_copies_from(h, a, d, s, sh, un, i) ==
    LET rest == {e \in a[s] : TypeIndex[e.key] > i}
    IN  IF rest = {} THEN [heap |-> h, attrs |-> a]
        ELSE LET e == CHOOSE x \in rest : \A y \in rest : TypeIndex[x.key] <= TypeIndex[y.key]
             IN  IF (shared(h[e.ptr]) /\ sh) \/ (~shared(h[e.ptr]) /\ un)
                 THEN LET c == copy(h, e.ptr)
                      IN  add_copies_from(c.heap,
                                          [a EXCEPT ![d] = add(a[d], c.heap, c.ptr)],
                                          d, s, sh, un, TypeIndex[e.key])
                 ELSE add_copies_from(h, a, d, s, sh, un, TypeIndex[e.key])

add_copies(h, a, d, s, sh, un) == add_copies_from(h, a, d, s, sh, un, 0)

\* A slip: types[cls], which yields a null UnitType * for a class not in the map.
switchType_index(v, cls, ut) ==
    IF cls \in DOMAIN v.f.types THEN v.f.types[cls] ELSE "nullptr"

\* Attribute<attr_type::multitype>::switchType: the type the unit has afterwards
switchType(v, cls, ut) == IF cls \in DOMAIN v.f.types THEN v.f.types[cls] ELSE ut

\* --------------------------------------------------------------- actions
\* p = std::make_shared<Attribute<t>>(...)
New(l, t) ==
    \E v \in Ctor(t) :
        \E r \in {make_shared(heap, v)} :
            /\ Becomes(r.heap, attrs, [local EXCEPT ![l] = r.ptr])
            /\ last' = Call("new", 0, 0, t, FALSE, FALSE, FALSE, FALSE)
            /\ UNCHANGED unit_type

\* the calling code lets go of a pointer
Release(l) ==
    /\ local[l] # NULL
    /\ Becomes(heap, attrs, [local EXCEPT ![l] = NULL])
    /\ last' = Call("release", 0, 0, "", FALSE, FALSE, FALSE, FALSE)
    /\ UNCHANGED unit_type

\* the calling code writes a public data member through a pointer it holds;
\* a reference member (Player &) cannot be reseated
Mutate(l) ==
    /\ local[l] # NULL
    /\ heap[local[l]].variant # "owner"
    /\ \E f \in FieldSpace(heap[local[l]].variant) :
          /\ Cardinality({k \in DOMAIN f : f[k] # heap[local[l]].f[k]}) = 1
          /\ heap' = [heap EXCEPT ![local[l]].f = f]
    /\ last' = Call("mutate", 0, 0, "", FALSE, FALSE, last.op = "add_copies", FALSE)
    /\ UNCHANGED <<attrs, local, unit_type>>

\* the calling code assigns the public data member AttributeContainer::type
\* through a pointer it holds
SetType(l, t) ==
    /\ local[l] # NULL
    /\ heap[local[l]].type # t
    /\ heap' = [heap EXCEPT ![local[l]].type = t]
    /\ last' = Call("set_type", 0, 0, t, FALSE, FALSE, FALSE, FALSE)
    /\ UNCHANGED <<attrs, local, unit_type>>

\* attrs[s].add(p)
Add(s, l) ==
    /\ local[l] # NULL
    /\ Becomes(heap, [attrs EXCEPT ![s] = add(attrs[s], heap, local[l])], local)
    /\ last' = Call("add", s, 0, heap[local[l]].type, FALSE, FALSE,
                     has(attrs[s], heap[local[l]].type), FALSE)
    /\ UNCHANGED unit_type

\* attrs[d].add_copies(attrs[s], sh, un)
AddCopies(d, s, sh, un) ==
    \E r \in {add_copies(heap, attrs, d, s, sh, un)} :
        /\ Becomes(r.heap, r.attrs, local)
        /\ last' = Call("add_copies", d, s, "", sh, un, FALSE, FALSE)
        /\ UNCHANGED unit_type

\* attrs[d].add_copies(attrs[s])
AddCopiesAll(d, s) ==
    \E r \in {add_copies(heap, attrs, d, s, TRUE, TRUE)} :
        /\ Becomes(r.heap, r.attrs, local)
        /\ last' = Call("add_copies", d, s, "", TRUE, TRUE, FALSE, FALSE)
        /\ UNCHANGED unit_type

\* attrs[s].remove(t)
Remove(s, t) ==
    \E r \in {remove(attrs[s], t)} :
        /\ Becomes(heap, [attrs EXCEPT ![s] = r.attrs], local)
        /\ last' = Call("remove", s, 0, t, FALSE, FALSE, FALSE, r.ret)
        /\ UNCHANGED unit_type

\* attrs[s].has(t)
Has(s, t) ==
    /\ last' = Call("has", s, 0, t, FALSE, FALSE, FALSE, has(attrs[s], t))
    /\ UNCHANGED <<heap, attrs, local, unit_type>>

\* p = attrs[s].get(t)
Get(s, t, l) ==
    /\ Becomes(heap, attrs, [local EXCEPT ![l] = get(attrs[s], t)])
    /\ last' = Call("get", s, 0, t, FALSE, FALSE, FALSE, get(attrs[s], t) # NULL)
    /\ UNCHANGED unit_type

\* p->switchType(cls, unit), p a pointer to an Attribute<attr_type::multitype>
SwitchType(l, cls) ==
    /\ local[l] # NULL
    /\ heap[local[l]].variant = "multitype"
    /\ unit_type' = switchType(heap[local[l]], cls, unit_type)
    /\ last' = Call("switchType", 0, 0, cls, FALSE, FALSE, FALSE, FALSE)
    /\ UNCHANGED <<heap, attrs, local>>

\* -------------------------------------------------------- specifications
NoCall == Call("init", 0, 0, "", FALSE, FALSE, FALSE, FALSE)

\* Every store is empty after Attributes() and the calling code holds nothing.
Init ==
    /\ heap = << >>
    /\ attrs = [s \in Sets |-> {}]
    /\ local = [l \in Locals |-> NULL]
    /\ unit_type = "nullptr"
    /\ last = NoCall

\* The calling code constructs attributes, writes their members, moves them
\* between the two stores and queries the stores.
Next ==
    \/ \E l \in Locals, t \in UsedTypes : New(l, t)
    \/ \E l \in Locals : Mutate(l)
    \/ \E s \in Sets, l \in Locals : Add(s, l)
    \/ \E d \in Sets : \E s \in Sets \ {d}, sh \in BOOLEAN, un \in BOOLEAN : AddCopies(d, s, sh, un)
    \/ \E d \in Sets : \E s \in Sets \ {d} : AddCopiesAll(d, s)
    \/ \E s \in Sets, t \in UsedTypes : Remove(s, t)
    \/ \E s \in Sets, t \in UsedTypes : Has(s, t)
    \/ \E s \in Sets, t \in UsedTypes, l \in Locals : Get(s, t, l)
    \/ \E l \in Locals : Release(l)

Spec == Init /\ [][Next]_vars

\* The calling code holds one object of any of the 15 specialisations, as a
\* constructor leaves it.  Store 1 is the template the calling code fills,
\* store 2 the unit seeded from it with add_copies; the calling code may
\* assign the type member of a value it holds.
InitCopy ==
    \E t \in AllTypes : \E v \in Ctor(t) :
        /\ heap = [n \in {Len(AttrTypes) * Cardinality(Sets) + 1} |-> v]
        /\ attrs = [s \in Sets |-> {}]
        /\ local = [l \in Locals |-> Len(AttrTypes) * Cardinality(Sets) + 1]
        /\ unit_type = "nullptr"
        /\ last = NoCall

NextCopy ==
    \/ \E l \in Locals, t \in Retags : SetType(l, t)
    \/ \E l \in Locals : Add(1, l)
    \/ AddCopiesAll(2, 1)
    \/ \E s \in Sets, l \in Locals : \E t \in MapKeys(attrs[s]) : Get(s, t, l)
    \/ \E s \in Sets : \E t \in MapKeys(attrs[s]) : Remove(s, t)

SpecCopy == InitCopy /\ [][NextCopy]_vars

\* The calling code holds a multitype attribute, fills its public map and
\* switches the type of a unit with it.
InitSwitch ==
    \E v \in Ctor("multitype"), ut \in UnitTypePtrs :
        /\ heap = [n \in {Len(AttrTypes) * Cardinality(Sets) + 1} |-> v]
        /\ attrs = [s \in Sets |-> {}]
        /\ local = [l \in Locals |-> Len(AttrTypes) * Cardinality(Sets) + 1]
        /\ unit_type = ut
        /\ last = NoCall

NextSwitch ==
    \/ \E l \in Locals : Mutate(l)
    \/ \E l \in Locals, cls \in UnitClasses : SwitchType(l, cls)

SpecSwitch == InitSwitch /\ [][NextSwitch]_vars


\* ================================================================ claims
\* The pointer store s of a holds under t, NULL when it holds none.
PtrAt(a, s, t) == IF \E e \in a[s] : e.key = t THEN (CHOOSE e \in a[s] : e.key = t).ptr ELSE NULL

Present(a, s, t) == \E e \in a[s] : e.key = t

\* The place of the entry of store s under t, and the places that hold object p.
SlotOf(s, t) == (s - 1) * Len(AttrTypes) + TypeIndex[t]

Holders(a, l, p) == {x[1] : x \in {y \in Slots(a, l) : y[2] = p}}

\* The entry of store s under t is one add_copies(.., sh, un) copies.
Selected(h, a, s, t, sh, un) ==
    /\ Present(a, s, t)
    /\ \/ shared(h[PtrAt(a, s, t)]) /\ sh
       \/ ~shared(h[PtrAt(a, s, t)]) /\ un

\* The entry of store d under t is the same before and after the step.
EntryKept(d, t) ==
    /\ Present(attrs', d, t) = Present(attrs, d, t)
    /\ Present(attrs, d, t) =>
          /\ heap'[PtrAt(attrs', d, t)] = heap[PtrAt(attrs, d, t)]
          /\ Holders(attrs', local', PtrAt(attrs', d, t)) = Holders(attrs, local, PtrAt(attrs, d, t))

\* C1: add_copies(source, include_shared, include_unshared) on a store B copies
\* the entry of source under a tag exactly when the entry is shared and
\* include_shared is set, or unshared and include_unshared is set: B then holds
\* under that tag a value equal in content to the source's.  Every other entry
\* of B keeps its previous value, and with both flags false B is unchanged.
C1_Step ==
    last'.op = "add_copies" =>
        LET d == last'.set
            s == last'.src
        IN  /\ \A t \in AllTypes :
                  IF Selected(heap, attrs, s, t, last'.sh, last'.un)
                  THEN /\ Present(attrs', d, t)
                       /\ heap'[PtrAt(attrs', d, t)] = heap[PtrAt(attrs, s, t)]
                  ELSE EntryKept(d, t)
            /\ (~last'.sh /\ ~last'.un) => (attrs' = attrs /\ heap' = heap)

C1_FilteredCopy == [][C1_Step]_vars

\* add_copies(A, true, false) ran on a source with a shared and an unshared
\* entry: the shared one arrived, the unshared one did not.
C1_Witness ==
    /\ last.op = "add_copies" /\ last.sh /\ ~last.un
    /\ \E t \in AllTypes, u \in AllTypes :
          /\ Present(attrs, last.src, t) /\ shared(heap[PtrAt(attrs, last.src, t)])
          /\ Present(attrs, last.src, u) /\ ~shared(heap[PtrAt(attrs, last.src, u)])
          /\ Present(attrs, last.set, t) /\ ~Present(attrs, last.set, u)

\* C2: after B.add_copies(A) every copied entry of B is a fresh object no other
\* store and no pointer of the calling code refers to, and a write to a member
\* of the value A holds, made right after the copy, leaves the value B holds
\* unchanged, and the other way round.
C2_Step ==
    /\ last'.op = "add_copies" =>
          \A t \in AllTypes :
              Selected(heap, attrs, last'.src, t, last'.sh, last'.un) =>
                  Holders(attrs', local', PtrAt(attrs', last'.set, t)) = {SlotOf(last'.set, t)}
    /\ (last.op = "add_copies" /\ last'.op = "mutate") =>
          \A t \in AllTypes : \A l \in Locals :
              (Selected(heap, attrs, last.src, t, last.sh, last.un) /\ Present(attrs, last.set, t)) =>
                  /\ local[l] = PtrAt(attrs, last.src, t) =>
                        heap'[PtrAt(attrs', last.set, t)] = heap[PtrAt(attrs, last.set, t)]
                  /\ local[l] = PtrAt(attrs, last.set, t) =>
                        heap'[PtrAt(attrs', last.src, t)] = heap[PtrAt(attrs, last.src, t)]

C2_DeepCopy == [][C2_Step]_vars

\* Right after a copy between the stores, a member of the value one store
\* holds was written and the value of the other store differs from it.
C2_Witness ==
    /\ last.op = "mutate" /\ last.had
    /\ \E t \in AllTypes : \E l \in Locals :
          /\ Present(attrs, 1, t) /\ Present(attrs, 2, t)
          /\ local[l] \in {PtrAt(attrs, 1, t), PtrAt(attrs, 2, t)}
          /\ PtrAt(attrs, 1, t) # PtrAt(attrs, 2, t)
          /\ heap[PtrAt(attrs, 1, t)] # heap[PtrAt(attrs, 2, t)]

\* C3: right after set.add(v), set.has(v.tag()) is true and set.get(v.tag())
\* is the value added, equal in content to v, whatever the store held before.
C3_Step ==
    last'.op = "add" =>
        \E l \in Locals :
            /\ local[l] # NULL
            /\ last'.type = heap[local[l]].type
            /\ has(attrs'[last'.set], last'.type)
            /\ get(attrs'[last'.set], last'.type) = local'[l]
            /\ heap'[get(attrs'[last'.set], last'.type)] = heap[local[l]]

C3_AddThenGet == [][C3_Step]_vars

\* add replaced an entry and the store holds the value added.
C3_Witness ==
    /\ last.op = "add" /\ last.had
    /\ \E l \in Locals : get(attrs[last.set], last.type) = local[l]

\* C4: a store never holds two entries under one tag; an add under a tag the
\* store holds replaces the entry: the number of entries stays the same and
\* get returns the value added, not the old one.
C4_Inv == \A s \in Sets : \A t \in AllTypes : Cardinality({e \in attrs[s] : e.key = t}) <= 1

C4_Step ==
    (last'.op = "add" /\ Present(attrs, last'.set, last'.type)) =>
        /\ Cardinality(attrs'[last'.set]) = Cardinality(attrs[last'.set])
        /\ \A e \in attrs'[last'.set] : e.key = last'.type => \E l \in Locals : e.ptr = local'[l]

C4_OnePerTag == []C4_Inv /\ [][C4_Step]_vars

\* add replaced one of the two entries of a store by another object.
C4_Witness ==
    /\ last.op = "add" /\ last.had
    /\ Cardinality(attrs[last.set]) = 2
    /\ Cardinality({e.key : e \in attrs[last.set]}) = 2


\* The tags two different stores hold the same object under.
SharedBetweenSets(a) ==
    UNION {{<<s1, s2, e.key>> : e \in {x \in a[s1] : x \in a[s2]}} :
              s1 \in Sets, s2 \in Sets} \ {<<s, s, t>> : s \in Sets, t \in AllTypes}

\* C5 as claimed: every stored value is held by exactly one store and by
\* nothing else, neither another store nor a pointer of the calling code.
C5_Exclusive ==
    \A s \in Sets : \A e \in attrs[s] : Holders(attrs, local, e.ptr) = {SlotOf(s, e.key)}

\* C5 as amended: ownership is shared.  Every pointer held refers to a live
\* object and every live object is held; a stored value is also held by the
\* calling code that passed it to add or got it from get; only add makes a
\* second store hold a value, and only the value passed to it.
C5_Live ==
    /\ \A x \in Slots(attrs, local) : x[2] \in DOMAIN heap
    /\ \A o \in DOMAIN heap : Holders(attrs, local, o) # {}

C5_Step ==
    /\ last'.op # "add" => SharedBetweenSets(attrs') \subseteq SharedBetweenSets(attrs)
    /\ last'.op = "add" =>
          /\ \A x \in SharedBetweenSets(attrs') \ SharedBetweenSets(attrs) :
                x[3] = last'.type /\ last'.set \in {x[1], x[2]}
          /\ \E l \in Locals : local'[l] = PtrAt(attrs', last'.set, last'.type)
    /\ (last'.op = "get" /\ last'.retb) =>
          \E l \in Locals : local'[l] = PtrAt(attrs', last'.set, last'.type)
    /\ last'.op = "add_copies" =>
          \A t \in AllTypes :
              Selected(heap, attrs, last'.src, t, last'.sh, last'.un) =>
                  PtrAt(attrs', last'.set, t) # PtrAt(attrs', last'.src, t)

C5_SharedOwnership == []C5_Live /\ [][C5_Step]_vars

\* One object is held by both stores and by the calling code.
C5_Witness ==
    \E t \in AllTypes : \E l \in Locals :
        /\ Present(attrs, 1, t) /\ Present(attrs, 2, t)
        /\ PtrAt(attrs, 1, t) = PtrAt(attrs, 2, t)
        /\ local[l] = PtrAt(attrs, 1, t)

\* C6: has(t) and get(t) on a tag the store does not hold answer false and the
\* empty pointer, on a tag it holds true and the stored pointer, and neither
\* changes the store or a stored value.
C6_Step ==
    /\ last'.op = "has" =>
          /\ last'.retb = Present(attrs, last'.set, last'.type)
          /\ heap' = heap /\ attrs' = attrs /\ local' = local
    /\ last'.op = "get" =>
          /\ last'.retb = Present(attrs, last'.set, last'.type)
          /\ \E l \in Locals : local'[l] = PtrAt(attrs, last'.set, last'.type)
          /\ attrs' = attrs
          /\ \A s \in Sets : \A e \in attrs[s] : heap'[e.ptr] = heap[e.ptr]

C6_AbsenceIsAResult == [][C6_Step]_vars

\* get was called for a tag a store with another entry does not hold.
C6_Witness ==
    /\ last.op = "get" /\ ~last.retb
    /\ attrs[last.set] # {}
    /\ ~Present(attrs, last.set, last.type)
    /\ \E l \in Locals : local[l] = NULL

\* C7: remove(t) on a tag the store does not hold returns false and leaves the
\* store unchanged; a remove(t) right after a remove(t) on the same store
\* returns false and changes nothing.
C7_Step ==
    /\ (last'.op = "remove" /\ ~Present(attrs, last'.set, last'.type)) =>
          /\ ~last'.retb
          /\ heap' = heap /\ attrs' = attrs /\ local' = local
    /\ (last.op = "remove" /\ last'.op = "remove"
            /\ last'.set = last.set /\ last'.type = last.type) =>
          /\ ~last'.retb
          /\ heap' = heap /\ attrs' = attrs /\ local' = local

C7_RemoveAbsent == [][C7_Step]_vars

\* remove returned false on a store that holds an entry under another tag.
C7_Witness ==
    /\ last.op = "remove" /\ ~last.retb
    /\ attrs[last.set] # {}

\* C8: remove(t) on a tag the store holds returns true and has(t) is false
\* afterwards; remove returns true exactly when an entry was removed, and the
\* entries under the other tags stay.
C8_Step ==
    last'.op = "remove" =>
        /\ Present(attrs, last'.set, last'.type) =>
              (last'.retb /\ ~has(attrs'[last'.set], last'.type))
        /\ last'.retb = Present(attrs, last'.set, last'.type)
        /\ last'.retb = (Cardinality(attrs'[last'.set]) < Cardinality(attrs[last'.set]))
        /\ \A t \in AllTypes \ {last'.type} :
              Present(attrs', last'.set, t) = Present(attrs, last'.set, t)

C8_RemovePresent == [][C8_Step]_vars

\* remove returned true and the store keeps its entry under another tag.
C8_Witness ==
    /\ last.op = "remove" /\ last.retb
    /\ ~Present(attrs, last.set, last.type)
    /\ attrs[last.set] # {}

\* The classification the table of attribute kinds gives.
TableShared ==
    {"owner", "hitpoints", "armor", "heal", "speed", "dropsite", "worker", "multitype"}

TableUnshared ==
    {"damaged", "attack", "direction", "projectile", "building", "resource", "garrison"}

\* C9 as claimed: the tag of a value is the tag of its specialisation and its
\* classification is the one of the table, for every live value at all times;
\* every entry is stored under the tag of its value; copy() returns a value
\* of the same tag and classification as its source.
C9_TagOfVariant ==
    /\ \A o \in DOMAIN heap :
          /\ heap[o].type = heap[o].variant
          /\ shared(heap[o]) = (heap[o].type \in TableShared)
          /\ (~shared(heap[o])) = (heap[o].type \in TableUnshared)
    /\ \A s \in Sets : \A e \in attrs[s] : e.key = heap[e.ptr].type

C9_Inv ==
    \A o \in DOMAIN heap :
        /\ shared(heap[o]) = (heap[o].variant \in TableShared)
        /\ (~shared(heap[o])) = (heap[o].variant \in TableUnshared)

\* The step stores a pointer in the entry of store s under t.
Stored(s, t) ==
    \/ last'.op = "add" /\ last'.set = s /\ last'.type = t
    \/ /\ last'.op = "add_copies" /\ last'.set = s
       /\ \E e \in attrs[last'.src] :
             /\ Selected(heap, attrs, last'.src, e.key, last'.sh, last'.un)
             /\ heap[e.ptr].type = t

C9_Step ==
    /\ last'.op # "set_type" =>
          /\ \A s \in Sets : \A t \in MapKeys(attrs[s]) \cap MapKeys(attrs'[s]) :
                ~Stored(s, t) =>
                    /\ heap'[PtrAt(attrs', s, t)].type = heap[PtrAt(attrs, s, t)].type
                    /\ heap'[PtrAt(attrs', s, t)].variant = heap[PtrAt(attrs, s, t)].variant
          /\ last'.op \notin {"get", "release"} =>
                \A l \in Locals :
                    (local[l] # NULL /\ local'[l] # NULL) =>
                        heap'[local'[l]].type = heap[local[l]].type
    /\ last'.op = "add_copies" =>
          /\ \A e \in attrs[last'.src] :
                (last'.set # last'.src
                    /\ Selected(heap, attrs, last'.src, e.key, last'.sh, last'.un)) =>
                    /\ Present(attrs', last'.set, heap[e.ptr].type)
                    /\ heap'[PtrAt(attrs', last'.set, heap[e.ptr].type)].type = heap[e.ptr].type
          /\ \A t \in MapKeys(attrs'[last'.set]) :
                Stored(last'.set, t) =>
                    \E e \in attrs[last'.src] :
                        /\ Selected(heap, attrs, last'.src, e.key, last'.sh, last'.un)
                        /\ heap[e.ptr].type = t
                        /\ heap'[PtrAt(attrs', last'.set, t)].type = heap[e.ptr].type
                        /\ heap'[PtrAt(attrs', last'.set, t)].variant = heap[e.ptr].variant
                        /\ shared(heap'[PtrAt(attrs', last'.set, t)]) = shared(heap[e.ptr])

C10_Step ==
    last'.op = "switchType" =>
        \E l \in Locals :
            LET types == heap[local[l]].f.types
            IN  /\ last'.type \in DOMAIN types => unit_type' = types[last'.type]
                /\ last'.type \notin DOMAIN types => unit_type' = unit_type
                /\ heap' = heap

C10_SwitchType == [][C10_Step]_vars

\* The unit was switched to VillagerMale, then switchType was called with a
\* class the map does not hold, and the unit is still a VillagerMale.
C10_Witness ==
    /\ last.op = "switchType" /\ last.type = "Scout"
    /\ unit_type = "VillagerMale"
    /\ \E l \in Locals :
          /\ local[l] # NULL
          /\ DOMAIN heap[local[l]].f.types = {"Worker", "Soldier"}
          /\ heap[local[l]].f.types["Worker"] = "VillagerMale"
          /\ heap[local[l]].f.types["Soldier"] = "Militia"

====
